---- MODULE Spec2Model ----
(***************************************************************************)
(* Model of server/server.js: the GET /api/search handler of the car       *)
(* price finder, its three outbound calls (SerpAPI web search, SerpAPI     *)
(* image search, OpenAI chat completion) and its pure helpers              *)
(* (sanitizeQuery, toLakhs, pickBestImageFromSerp, extractWithLLM's        *)
(* parse-or-fallback step, the payload assembly).                          *)
(*                                                                         *)
(* JavaScript strings are TLA+ strings; Len, SubSeq and \o act on them     *)
(* character by character.  A JavaScript value of unknown type (a field    *)
(* of parsed JSON, a query parameter) is a JVal record.                    *)
(***************************************************************************)
EXTENDS Integers, Sequences, FiniteSets, TLC

VARIABLES
    pc,       \* per request: position of the async handler
    q,        \* per request: req.query.q as received
    query,    \* per request: const query (line 201)
    web,      \* per request: the serpWebSearch promise
    img,      \* per request: the serpImageSearch promise
    llmCall,  \* per request: the axios.post of extractWithLLM
    llm,      \* per request: const llm (line 216)
    issued,   \* per request: number of outbound calls issued, per service
    res,      \* per request: the responses written to res, in order
    fn,       \* unit harness: the helper under test
    arg,      \* unit harness: its argument
    ret       \* unit harness: its results, in call order

vars == <<pc, q, query, web, img, llmCall, llm, issued, res, fn, arg, ret>>
handlerVars == <<pc, q, query, web, img, llmCall, llm, issued, res>>
unitVars == <<fn, arg, ret>>

---------------------------------------------------------------------------
(* Bounds of the model *)

NumReq == 1        \* concurrent requests
MaxPad == 2        \* longest whitespace run in a generated query
MaxImages == 3     \* longest image result list in the selector harness

(* Program constants *)

MaxQueryLen == 80      \* slice(0, 80)
LakhRupees == 100000   \* n / 100000
MaxSources == 4        \* pages.slice(0, 4)

Reqs == 1..NumReq

---------------------------------------------------------------------------
(* JavaScript values *)

JUndef == [t |-> "undefined", n |-> 0, s |-> "", a |-> <<>>]
JNull == [t |-> "null", n |-> 0, s |-> "", a |-> <<>>]
JNaN == [t |-> "NaN", n |-> 0, s |-> "", a |-> <<>>]
JNum(n) == [t |-> "number", n |-> n, s |-> "", a |-> <<>>]
JStr(s) == [t |-> "string", n |-> 0, s |-> s, a |-> <<>>]
JBool(b) == [t |-> "boolean", n |-> IF b THEN 1 ELSE 0, s |-> "", a |-> <<>>]
JArr(a) == [t |-> "array", n |-> 0, s |-> "", a |-> a]

\* ToBoolean: what `x || y`, `!x` and `x ? y : z` test
Truthy(v) ==
    CASE v.t \in {"undefined", "null", "NaN"} -> FALSE
      [] v.t \in {"number", "boolean"} -> v.n # 0
      [] v.t = "string" -> v.s # ""
      [] OTHER -> TRUE

Min(a, b) == IF a < b THEN a ELSE b

RECURSIVE Rep(_, _)
Rep(c, n) == IF n = 0 THEN "" ELSE c \o Rep(c, n - 1)

RECURSIVE Join(_)
Join(a) ==
    IF a = <<>> THEN ""
    ELSE IF Len(a) = 1 THEN a[1]
    ELSE a[1] \o "," \o Join(Tail(a))

\* String(v)
JsString(v) ==
    CASE v.t = "string" -> v.s
      [] v.t = "array" -> Join(v.a)
      [] v.t = "number" -> "<number>"
      [] v.t = "boolean" -> IF v.n = 1 THEN "true" ELSE "false"
      [] OTHER -> v.t

WhiteSpace == {" ", "\t"}

RECURSIVE TrimStart(_)
TrimStart(s) ==
    IF s # "" /\ SubSeq(s, 1, 1) \in WhiteSpace
    THEN TrimStart(SubSeq(s, 2, Len(s)))
    ELSE s

RECURSIVE TrimEnd(_)
TrimEnd(s) ==
    IF s # "" /\ SubSeq(s, Len(s), Len(s)) \in WhiteSpace
    THEN TrimEnd(SubSeq(s, 1, Len(s) - 1))
    ELSE s

\* String.prototype.trim
Trim(s) == TrimEnd(TrimStart(s))

\* slice(0, n) of a string or an array
Slice0(s, n) == SubSeq(s, 1, Min(Len(s), n))

---------------------------------------------------------------------------
(* Utilities *)

sanitizeQueryNoTrim(v) ==
    Slice0(JsString(IF Truthy(v) THEN v ELSE JStr("")), MaxQueryLen)

sanitizeQuery(v) ==
    Slice0(Trim(JsString(IF Truthy(v) THEN v ELSE JStr(""))), MaxQueryLen)

Digit(d) == SubSeq("0123456789", d + 1, d + 1)

RECURSIVE Digits(_)
Digits(n) == IF n < 10 THEN Digit(n) ELSE Digits(n \div 10) \o Digit(n % 10)

IsDigit(c) == \E d \in 0..9 : c = Digit(d)

DigitValue(c) == CHOOSE d \in 0..9 : c = Digit(d)

RECURSIVE DigitsValue(_)
DigitsValue(s) ==
    IF s = "" THEN 0
    ELSE 10 * DigitsValue(SubSeq(s, 1, Len(s) - 1))
         + DigitValue(SubSeq(s, Len(s), Len(s)))

\* StringToNumber, for the strings of the model: whitespace is trimmed, the
\* empty string is 0, a run of decimal digits is its value, and a string
\* holding any other character is NaN.
StringToNumber(s) ==
    LET t == Trim(s) IN
    IF \A i \in 1..Len(t) : IsDigit(SubSeq(t, i, i))
    THEN JNum(DigitsValue(t))
    ELSE JNaN

\* Number(v)
Number(v) ==
    CASE v.t = "undefined" -> JNaN
      [] v.t = "null" -> JNum(0)
      [] v.t = "boolean" -> JNum(v.n)
      [] v.t = "string" -> StringToNumber(v.s)
      [] v.t = "array" -> StringToNumber(Join(v.a))
      [] OTHER -> v

\* (n / 100000).toFixed(2) for an integer n >= 0: the quotient rounded to the
\* nearest hundredth.  An amount exactly halfway between two hundredths
\* (n % 1000 = 500) rounds as the binary double nearest to n / 100000 lies,
\* up or down; the amounts of the model avoid these.
toFixed2(n) ==
    LET h == (n + LakhRupees \div 200) \div (LakhRupees \div 100) IN
    Digits(h \div 100) \o "." \o Digit((h % 100) \div 10) \o Digit(h % 10)

toLakhsNoZeroTest(rupees) ==
    LET n == Number(rupees) IN
    IF n.t = "NaN" THEN JNull
    ELSE JStr("₹" \o toFixed2(n.n) \o " lakhs")

toLakhs(rupees) ==
    LET n == Number(rupees) IN
    IF ~Truthy(n) \/ n.t = "NaN" THEN JNull
    ELSE JStr("₹" \o toFixed2(n.n) \o " lakhs")

\* An item of images_results.  A field the provider left out is "" (a string
\* field) or 0 (width): the code tests these fields for truthiness only.
ImageItem(original, thumbnail, title, link, source, width) ==
    [original |-> original, thumbnail |-> thumbnail, title |-> title,
     link |-> link, source |-> source, width |-> width]

RECURSIVE FirstWithOriginal(_)
FirstWithOriginal(items) ==
    IF items = <<>> THEN JNull
    ELSE IF items[1].original # "" THEN items[1]
    ELSE FirstWithOriginal(Tail(items))

RECURSIVE LastWithOriginal(_)
LastWithOriginal(items) ==
    IF items = <<>> THEN JNull
    ELSE IF items[Len(items)].original # "" THEN items[Len(items)]
    ELSE LastWithOriginal(SubSeq(items, 1, Len(items) - 1))

pickLastOriginal(items) ==
    IF LastWithOriginal(items) # JNull THEN LastWithOriginal(items)
    ELSE IF items # <<>> THEN items[1] ELSE JNull

pickBestImageFromSerp(items) ==
    IF FirstWithOriginal(items) # JNull THEN FirstWithOriginal(items)
    ELSE IF items # <<>> THEN items[1] ELSE JNull

---------------------------------------------------------------------------
(* SerpAPI: web and images *)

\* An item of organic_results; a field the provider left out is "".
OrganicResult(title, link, snippet, displayed_link) ==
    [title |-> title, link |-> link, snippet |-> snippet,
     displayed_link |-> displayed_link]

\* Array.isArray(data?.X) ? data.X : []  -- a body without the array is
\* [isArray |-> FALSE]
ArrayOrEmpty(data) == IF data.isArray THEN data.items ELSE <<>>

KeepPage(p) == p.url # "" /\ p.name # ""

\* lines 98-99: map to { name, url, snippet, displayUrl }, drop entries
\* without url or name, provider order kept
NormalizePages(data) ==
    LET items == ArrayOrEmpty(data)
        mapped == [i \in 1..Len(items) |->
                      [name |-> items[i].title, url |-> items[i].link,
                       snippet |-> items[i].snippet,
                       displayUrl |-> items[i].displayed_link]]
    IN SelectSeq(mapped, KeepPage)

\* Why an axios call failed: no response at all, a response with a non-2xx
\* status, or no response within timeout: 20000.
FailureKinds == {"unreachable", "non2xx", "timeout"}

\* e.message of the axios error
AxiosMessage(kind) ==
    CASE kind = "unreachable" -> "getaddrinfo ENOTFOUND"
      [] kind = "non2xx" -> "Request failed with status code 401"
      [] OTHER -> "timeout of 20000ms exceeded"

\* JSON.stringify(e?.response?.data || e?.message)
StringifiedCause(kind) ==
    IF kind = "non2xx" THEN "{\"error\":\"Invalid API key\"}"
    ELSE "\"" \o AxiosMessage(kind) \o "\""

webQuery(qs) == qs \o " price India variants ex-showroom"
imageQuery(qs) == qs \o " car India"

---------------------------------------------------------------------------
(* LLM extraction *)

Keys == {"brand", "model", "one_sentence_info", "starting_price_inr",
         "top_variant_price_inr", "ex_showroom_or_on_road", "sources",
         "last_checked"}

NoKeys == [k \in Keys |-> JUndef]

\* A parsed JSON value: an object with its keys (a key it lacks reads as
\* undefined), or a value that is not an object.
JObject(o) == [t |-> "object", o |-> o]
JOther(t) == [t |-> t, o |-> NoKeys]

NowISO == "2024-05-01T10:00:00.000Z"

TextNexon ==
    "{\"brand\":\"Tata\",\"model\":\"Nexon\",\"one_sentence_info\":\"Compact SUV.\",\"starting_price_inr\":800000,\"top_variant_price_inr\":1550000,\"ex_showroom_or_on_road\":\"ex-showroom Delhi\",\"sources\":[\"https://a.in/1\",\"https://b.in/2\"],\"last_checked\":\"2024-04-30T00:00:00Z\"}"
TextFiveSources ==
    "{\"model\":\"\",\"starting_price_inr\":\"800000\",\"top_variant_price_inr\":0,\"sources\":[\"https://a.in/1\",\"https://b.in/2\",\"https://c.in/3\",\"https://d.in/4\",\"https://e.in/5\"]}"
TextNoSources == "{\"brand\":null,\"starting_price_inr\":\"eight lakh\",\"sources\":[]}"
TextEmptyObject == "{}"
TextNull == "null"
TextNumber == "42"
TextProse == "The Tata Nexon starts at 8 lakh."
TextTruncated == "{\"brand\":\"Tata\",\"model\":"

ObjNexon ==
    [NoKeys EXCEPT !.brand = JStr("Tata"), !.model = JStr("Nexon"),
                   !.one_sentence_info = JStr("Compact SUV."),
                   !.starting_price_inr = JNum(800000),
                   !.top_variant_price_inr = JNum(1550000),
                   !.ex_showroom_or_on_road = JStr("ex-showroom Delhi"),
                   !.sources = JArr(<<"https://a.in/1", "https://b.in/2">>),
                   !.last_checked = JStr("2024-04-30T00:00:00Z")]
ObjFiveSources ==
    [NoKeys EXCEPT !.model = JStr(""),
                   !.starting_price_inr = JStr("800000"),
                   !.top_variant_price_inr = JNum(0),
                   !.sources = JArr(<<"https://a.in/1", "https://b.in/2",
                                      "https://c.in/3", "https://d.in/4",
                                      "https://e.in/5">>)]
ObjNoSources ==
    [NoKeys EXCEPT !.brand = JNull,
                   !.starting_price_inr = JStr("eight lakh"),
                   !.sources = JArr(<<>>)]

\* JSON.parse on the texts of the model: the value, or SyntaxError
JSONparse(text) ==
    CASE text = TextNexon -> [ok |-> TRUE, value |-> JObject(ObjNexon)]
      [] text = TextFiveSources -> [ok |-> TRUE, value |-> JObject(ObjFiveSources)]
      [] text = TextNoSources -> [ok |-> TRUE, value |-> JObject(ObjNoSources)]
      [] text = TextEmptyObject -> [ok |-> TRUE, value |-> JObject(NoKeys)]
      [] text = TextNull -> [ok |-> TRUE, value |-> JOther("null")]
      [] text = TextNumber -> [ok |-> TRUE, value |-> JOther("number")]
      [] OTHER -> [ok |-> FALSE, value |-> JOther("undefined")]

\* pages.slice(0, 4).map(p => p.url)
FirstUrls(pages) ==
    LET first == Slice0(pages, MaxSources) IN
    [i \in 1..Len(first) |-> first[i].url]

\* the record returned from the catch block, lines 181-190
Fallback(carQuery, pages) ==
    JObject([NoKeys EXCEPT
        !.brand = JNull,
        !.model = JStr(carQuery),
        !.one_sentence_info =
            JStr("Could not reliably extract details from sources."),
        !.starting_price_inr = JNull,
        !.top_variant_price_inr = JNull,
        !.ex_showroom_or_on_road = JNull,
        !.sources = JArr(FirstUrls(pages)),
        !.last_checked = JStr(NowISO)])

\* data?.choices?.[0]?.message?.content?.trim() || "{}"
CompletionText(content) ==
    IF content.t = "string" /\ Trim(content.s) # "" THEN Trim(content.s)
    ELSE "{}"

\* extractWithLLM once axios.post has returned `content`, lines 176-191
extractWithLLM(carQuery, pages, content) ==
    LET parsed == JSONparse(CompletionText(content)) IN
    IF parsed.ok THEN parsed.value ELSE Fallback(carQuery, pages)

---------------------------------------------------------------------------
(* GET /api/search *)

\* llm.key: undefined on a value that is not an object.  Reading a
\* property of null throws TypeError (see Throws).
Get(v, key) == IF v.t = "object" THEN v.o[key] ELSE JUndef

\* whether building the payload from `v` throws
Throws(v) == v.t = "null"

NullMessage == "Cannot read properties of null (reading 'brand')"

\* lines 223-229
Prices(v) ==
    [starting_inr |-> Get(v, "starting_price_inr"),
     starting_lakhs |-> toLakhs(Get(v, "starting_price_inr")),
     top_inr |-> Get(v, "top_variant_price_inr"),
     top_lakhs |-> toLakhs(Get(v, "top_variant_price_inr")),
     basis |-> IF Truthy(Get(v, "ex_showroom_or_on_road"))
               THEN Get(v, "ex_showroom_or_on_road")
               ELSE JStr("ex-showroom (likely)")]

\* lines 230-236
Image(bestImg) ==
    IF bestImg = JNull THEN JNull
    ELSE [url |-> IF bestImg.original # "" THEN bestImg.original
                  ELSE bestImg.thumbnail,
          name |-> bestImg.title,
          source |-> IF bestImg.link # "" THEN bestImg.link
                     ELSE bestImg.source]

\* lines 237-239
Sources(v, pages) ==
    IF Get(v, "sources").t = "array" /\ Len(Get(v, "sources").a) > 0
    THEN Get(v, "sources")
    ELSE JArr(FirstUrls(pages))

\* lines 218-242
Payload(qs, v, bestImg, pages) ==
    [query |-> qs,
     brand |-> Get(v, "brand"),
     model |-> IF Truthy(Get(v, "model")) THEN Get(v, "model") ELSE JStr(qs),
     info |-> Get(v, "one_sentence_info"),
     prices |-> Prices(v),
     image |-> Image(bestImg),
     sources |-> Sources(v, pages),
     last_checked |-> IF Truthy(Get(v, "last_checked"))
                      THEN Get(v, "last_checked") ELSE JStr(NowISO),
     disclaimer |->
        "Prices vary by city, taxes, and date; please verify with official sources."]

BadRequest ==
    [status |-> 400, body |-> [error |-> "Missing car name in 'q' parameter"]]

Ok(payload) == [status |-> 200, body |-> payload]

\* the catch block, lines 245-248
SearchFailed(message) ==
    [status |-> 500, body |-> [error |-> "Search failed", details |-> message]]

NotIssued == [st |-> "none", value |-> <<>>, err |-> ""]
InFlight == [st |-> "inflight", value |-> <<>>, err |-> ""]
Fulfilled(value) == [st |-> "ok", value |-> value, err |-> ""]
Rejected(message) == [st |-> "fail", value |-> <<>>, err |-> message]

NoLlm == JOther("undefined")

AllFulfilledWebOnly(w, i) == w.st = "ok"

\* Promise.all([web, img]) fulfils when both have
AllFulfilled(w, i) == w.st = "ok" /\ i.st = "ok"

\* the inputs of the model
RawQueries ==
    { JUndef, JStr(""), JStr(" \t "), JStr(" Tata Nexon "),
      JStr(Rep("x", MaxQueryLen - 1) \o " suv") }

Page(n) ==
    OrganicResult("Result " \o Digit(n), "https://site.in/" \o Digit(n),
                  "from 8 lakh", "site.in")

WebBodies ==
    { [isArray |-> FALSE, items |-> <<>>],
      [isArray |-> TRUE,
       items |-> <<Page(1), OrganicResult("", "https://untitled.in", "", ""),
                   Page(2), Page(3), Page(4), Page(5)>>],
      [isArray |-> TRUE, items |-> <<Page(1), Page(1), Page(2)>>] }

ImageBodies ==
    { [isArray |-> FALSE, items |-> <<>>],
      [isArray |-> TRUE,
       items |-> <<ImageItem("", "https://t.in/1.jpg", "Nexon side", "",
                             "cardekho", 500),
                   ImageItem("https://o.in/2.jpg", "https://t.in/2.jpg",
                             "Nexon front", "https://o.in/page", "tata", 100)>>] }

Contents ==
    { JNull, JStr("  "), JStr(TextProse), JStr(TextTruncated), JStr(TextNull),
      JStr(TextNumber), JStr(TextEmptyObject), JStr(" " \o TextNexon \o " "),
      JStr(TextFiveSources), JStr(TextNoSources) }

RequestNoCheck(r, v) ==
    /\ pc[r] = "idle"
    /\ q' = [q EXCEPT ![r] = v]
    /\ query' = [query EXCEPT ![r] = sanitizeQuery(v)]
    /\ web' = [web EXCEPT ![r] = InFlight]
    /\ img' = [img EXCEPT ![r] = InFlight]
    /\ issued' = [issued EXCEPT ![r].web = @ + 1, ![r].img = @ + 1]
    /\ pc' = [pc EXCEPT ![r] = "searching"]
    /\ UNCHANGED <<res, llmCall, llm, unitVars>>

\* lines 199-213: the handler up to `await Promise.all`
Request(r, v) ==
    /\ pc[r] = "idle"
    /\ q' = [q EXCEPT ![r] = v]
    /\ query' = [query EXCEPT ![r] = sanitizeQuery(v)]
    /\ IF sanitizeQuery(v) = ""
       THEN /\ res' = [res EXCEPT ![r] = Append(@, BadRequest)]
            /\ pc' = [pc EXCEPT ![r] = "done"]
            /\ UNCHANGED <<web, img, issued>>
       ELSE /\ web' = [web EXCEPT ![r] = InFlight]
            /\ img' = [img EXCEPT ![r] = InFlight]
            /\ issued' = [issued EXCEPT ![r].web = @ + 1, ![r].img = @ + 1]
            /\ pc' = [pc EXCEPT ![r] = "searching"]
            /\ UNCHANGED res
    /\ UNCHANGED <<llmCall, llm, unitVars>>

\* lines 215-216 up to the `await axios.post` of line 154, run when
\* Promise.all fulfils
StartExtraction(r, w, i) ==
    IF pc[r] = "searching" /\ AllFulfilled(w, i)
    THEN /\ llmCall' = [llmCall EXCEPT ![r] = InFlight]
         /\ issued' = [issued EXCEPT ![r].llm = @ + 1]
         /\ pc' = [pc EXCEPT ![r] = "extracting"]
    ELSE UNCHANGED <<llmCall, issued, pc>>

FailSearchOnly(r, message) ==
    IF pc[r] = "searching"
    THEN /\ res' = [res EXCEPT ![r] = Append(@, SearchFailed(message))]
         /\ pc' = [pc EXCEPT ![r] = "done"]
    ELSE UNCHANGED <<res, pc>>

FailEveryRejection(r, message) ==
    /\ res' = [res EXCEPT ![r] = Append(@, SearchFailed(message))]
    /\ pc' = [pc EXCEPT ![r] = "done"]

\* the handler's catch block, run when the awaited promise rejects
Fail(r, message) ==
    IF pc[r] \in {"searching", "extracting"}
    THEN /\ res' = [res EXCEPT ![r] = Append(@, SearchFailed(message))]
         /\ pc' = [pc EXCEPT ![r] = "done"]
    ELSE UNCHANGED <<res, pc>>

\* lines 97-99: the web search answers 2xx
WebReturns(r, data) ==
    /\ web[r].st = "inflight"
    /\ web' = [web EXCEPT ![r] = Fulfilled(NormalizePages(data))]
    /\ StartExtraction(r, web'[r], img[r])
    /\ UNCHANGED <<q, query, img, llm, res, unitVars>>

\* lines 100-104
WebFails(r, kind) ==
    /\ web[r].st = "inflight"
    /\ web' = [web EXCEPT ![r] =
                 Rejected("SerpAPI web search failed: " \o StringifiedCause(kind))]
    /\ Fail(r, web'[r].err)
    /\ UNCHANGED <<q, query, img, llmCall, llm, issued, unitVars>>

\* lines 112-113
ImageReturns(r, data) ==
    /\ img[r].st = "inflight"
    /\ img' = [img EXCEPT ![r] = Fulfilled(ArrayOrEmpty(data))]
    /\ StartExtraction(r, web[r], img'[r])
    /\ UNCHANGED <<q, query, web, llm, res, unitVars>>

\* lines 114-118
ImageFails(r, kind) ==
    /\ img[r].st = "inflight"
    /\ img' = [img EXCEPT ![r] =
                 Rejected("SerpAPI image search failed: " \o StringifiedCause(kind))]
    /\ Fail(r, img'[r].err)
    /\ UNCHANGED <<q, query, web, llmCall, llm, issued, unitVars>>

\* lines 176-191 and 218-244: the completion answers 2xx
CompletionReturns(r, content) ==
    /\ llmCall[r].st = "inflight"
    /\ llmCall' = [llmCall EXCEPT ![r] = Fulfilled(content)]
    /\ llm' = [llm EXCEPT ![r] = extractWithLLM(query[r], web[r].value, content)]
    /\ IF Throws(llm'[r])
       THEN res' = [res EXCEPT ![r] = Append(@, SearchFailed(NullMessage))]
       ELSE res' = [res EXCEPT ![r] =
                Append(@, Ok(Payload(query[r], llm'[r],
                                     pickBestImageFromSerp(img[r].value),
                                     web[r].value)))]
    /\ pc' = [pc EXCEPT ![r] = "done"]
    /\ UNCHANGED <<q, query, web, img, issued, unitVars>>

\* the axios.post of line 154 rejects
CompletionFails(r, kind) ==
    /\ llmCall[r].st = "inflight"
    /\ llmCall' = [llmCall EXCEPT ![r] = Rejected(AxiosMessage(kind))]
    /\ Fail(r, llmCall'[r].err)
    /\ UNCHANGED <<q, query, web, img, llm, issued, unitVars>>

NoCall == "none"

HandlerInit ==
    /\ pc = [r \in Reqs |-> "idle"]
    /\ q = [r \in Reqs |-> JUndef]
    /\ query = [r \in Reqs |-> ""]
    /\ web = [r \in Reqs |-> NotIssued]
    /\ img = [r \in Reqs |-> NotIssued]
    /\ llmCall = [r \in Reqs |-> NotIssued]
    /\ llm = [r \in Reqs |-> NoLlm]
    /\ issued = [r \in Reqs |-> [web |-> 0, img |-> 0, llm |-> 0]]
    /\ res = [r \in Reqs |-> <<>>]

Init ==
    /\ HandlerInit
    /\ fn = NoCall
    /\ arg = JUndef
    /\ ret = <<>>

Next ==
    \/ \E r \in Reqs, v \in RawQueries : Request(r, v)
    \/ \E r \in Reqs, data \in WebBodies : WebReturns(r, data)
    \/ \E r \in Reqs, kind \in FailureKinds : WebFails(r, kind)
    \/ \E r \in Reqs, data \in ImageBodies : ImageReturns(r, data)
    \/ \E r \in Reqs, kind \in FailureKinds : ImageFails(r, kind)
    \/ \E r \in Reqs, content \in Contents : CompletionReturns(r, content)
    \/ \E r \in Reqs, kind \in FailureKinds : CompletionFails(r, kind)

Spec == Init /\ [][Next]_vars

\* Each outbound call carries timeout: 20000, so a call in flight ends: it
\* returns, or it fails (by its timeout at the latest).
WebEnds(r) ==
    \/ \E data \in WebBodies : WebReturns(r, data)
    \/ \E kind \in FailureKinds : WebFails(r, kind)

ImageEnds(r) ==
    \/ \E data \in ImageBodies : ImageReturns(r, data)
    \/ \E kind \in FailureKinds : ImageFails(r, kind)

CompletionEnds(r) ==
    \/ \E content \in Contents : CompletionReturns(r, content)
    \/ \E kind \in FailureKinds : CompletionFails(r, kind)

Arrives(r) == \E v \in RawQueries : Request(r, v)

FairSpec ==
    /\ Spec
    /\ \A r \in Reqs :
          /\ WF_vars(Arrives(r))
          /\ WF_vars(WebEnds(r))
          /\ WF_vars(ImageEnds(r))
          /\ WF_vars(CompletionEnds(r))

---------------------------------------------------------------------------
(* The helpers on their own: the argument is drawn in the initial state and
   the action applies the helper to it. *)

BodyLens == {0, 1} \cup ((MaxQueryLen - MaxPad - 1)..(MaxQueryLen + 1))

QueryStrings ==
    { Rep(w, a) \o Rep("x", m) \o Rep(w, b) \o Rep("y", c) \o Rep(w, d) :
        w \in WhiteSpace, a \in 0..MaxPad, m \in BodyLens, b \in 0..MaxPad,
        c \in 0..1, d \in 0..MaxPad }

SanitizeInputs == {JUndef} \cup {JStr(s) : s \in QueryStrings}

CallSanitize ==
    /\ fn = "sanitizeQuery"
    /\ ret = <<>>
    /\ ret' = <<sanitizeQuery(arg)>>
    /\ UNCHANGED <<fn, arg, handlerVars>>

CallSanitizeAgain ==
    /\ fn = "sanitizeQuery"
    /\ Len(ret) = 1
    /\ ret' = Append(ret, sanitizeQuery(JStr(ret[1])))
    /\ UNCHANGED <<fn, arg, handlerVars>>

SanitizeInit ==
    /\ HandlerInit
    /\ fn = "sanitizeQuery"
    /\ arg \in SanitizeInputs
    /\ ret = <<>>

SanitizeNext == CallSanitize \/ CallSanitizeAgain

SanitizeSpec == SanitizeInit /\ [][SanitizeNext]_vars

RupeeAmounts ==
    {0, 1, 499, 501, 1499, 1501, 99999, 100000, 800000, 1234567, 1500000,
     99999999}

Amounts ==
    {JUndef, JNull, JBool(TRUE), JBool(FALSE), JArr(<<>>), JArr(<<"800000">>),
     JStr(""), JStr("not-a-number"), JStr("800000"), JStr(" 1500000 ")}
    \cup {JNum(n) : n \in RupeeAmounts}

PriceObjects ==
    { JObject([NoKeys EXCEPT !.starting_price_inr = s,
                             !.top_variant_price_inr = t]) :
        s \in Amounts, t \in Amounts }

CallPrices ==
    /\ fn = "prices"
    /\ ret = <<>>
    /\ ret' = <<Prices(arg)>>
    /\ UNCHANGED <<fn, arg, handlerVars>>

LakhsInit ==
    /\ HandlerInit
    /\ fn = "prices"
    /\ arg \in PriceObjects
    /\ ret = <<>>

LakhsNext == CallPrices

LakhsSpec == LakhsInit /\ [][LakhsNext]_vars

Candidates ==
    { ImageItem(o, "https://t.in/thumb.jpg", "Nexon", "", "site", w) :
        o \in {"", "https://o.in/1.jpg", "https://o.in/2.jpg"},
        w \in {0, 100, 500} }

RECURSIVE SeqsUpTo(_, _)
SeqsUpTo(S, n) ==
    IF n = 0 THEN {<<>>}
    ELSE SeqsUpTo(S, n - 1)
         \cup {Append(s, x) : s \in {t \in SeqsUpTo(S, n - 1) : Len(t) = n - 1},
                              x \in S}

CallPickBestImage ==
    /\ fn = "pickBestImageFromSerp"
    /\ ret = <<>>
    /\ ret' = <<pickBestImageFromSerp(arg)>>
    /\ UNCHANGED <<fn, arg, handlerVars>>

ImageInit ==
    /\ HandlerInit
    /\ fn = "pickBestImageFromSerp"
    /\ arg \in SeqsUpTo(Candidates, MaxImages)
    /\ ret = <<>>

ImageNext == CallPickBestImage

ImageSpec == ImageInit /\ [][ImageNext]_vars

---------------------------------------------------------------------------
(* Properties *)

IsWhite(s) == \A i \in 1..Len(s) : SubSeq(s, i, i) \in WhiteSpace

\* the raw parameter is absent, empty or whitespace only
Blank(v) == v.t = "undefined" \/ (v.t = "string" /\ IsWhite(v.s))

NoLeadingSpace(s) == s = "" \/ SubSeq(s, 1, 1) \notin WhiteSpace
NoTrailingSpace(s) == s = "" \/ SubSeq(s, Len(s), Len(s)) \notin WhiteSpace

Answered(r) == res[r] # <<>>

AnyCallFailed(r) ==
    web[r].st = "fail" \/ img[r].st = "fail" \/ llmCall[r].st = "fail"

\* C1: a request is answered 400 with the "Missing car name" body exactly
\* when its q parameter is absent, empty or all whitespace, and for such a
\* request no web search, image search or completion call is issued.
C1_MissingQuery ==
    \A r \in Reqs :
        pc[r] # "idle" =>
            /\ (\E i \in 1..Len(res[r]) : res[r][i].status = 400) <=> Blank(q[r])
            /\ Blank(q[r]) =>
                  /\ res[r] = <<BadRequest>>
                  /\ issued[r] = [web |-> 0, img |-> 0, llm |-> 0]
                  /\ web[r].st = "none" /\ img[r].st = "none"
                  /\ llmCall[r].st = "none"

C1_Witness ==
    \E r \in Reqs : q[r] = JStr(" \t ") /\ res[r] = <<BadRequest>>

\* C2: once any of the three outbound calls of a request has failed, the
\* request has been answered, once, with 500, error "Search failed" and a
\* details key; and no service is called more than once for a request.
C2_FailureIs500 ==
    \A r \in Reqs :
        /\ issued[r].web <= 1 /\ issued[r].img <= 1 /\ issued[r].llm <= 1
        /\ AnyCallFailed(r) =>
              /\ pc[r] = "done"
              /\ Len(res[r]) = 1
              /\ res[r][1].status = 500
              /\ res[r][1].body.error = "Search failed"
              /\ "details" \in DOMAIN res[r][1].body

C2_Witness ==
    \E r \in Reqs :
        /\ web[r].st = "ok" /\ img[r].st = "ok"
        /\ llmCall[r].st = "fail"
        /\ llmCall[r].err = "timeout of 20000ms exceeded"
        /\ res[r] = <<SearchFailed("timeout of 20000ms exceeded")>>

\* C3: when the web search, the image search and the completion call of a
\* request have all returned, the request has been answered 200, whatever
\* the completion text was.
C3_ContentNever500 ==
    \A r \in Reqs :
        (web[r].st = "ok" /\ img[r].st = "ok" /\ llmCall[r].st = "ok") =>
            /\ Len(res[r]) = 1
            /\ res[r][1].status = 200

\* C4: the two searches are issued together, before the handler awaits
\* either; the completion call is issued only once both searches have
\* returned, and never for a request one of whose searches failed.
C4_SearchesThenExtraction ==
    \A r \in Reqs :
        /\ (web[r].st = "none") <=> (img[r].st = "none")
        /\ issued[r].web = issued[r].img
        /\ pc[r] = "searching" => issued[r].web = 1
        /\ (llmCall[r].st # "none") <=> (issued[r].llm > 0)
        /\ issued[r].llm > 0 => (web[r].st = "ok" /\ img[r].st = "ok")
        /\ (web[r].st = "fail" \/ img[r].st = "fail") => issued[r].llm = 0

C4_Witness ==
    \E r \in Reqs :
        /\ pc[r] = "extracting" /\ llmCall[r].st = "inflight"
        /\ web[r].st = "ok" /\ img[r].st = "ok"

\* C5: a request that has arrived is never answered twice and is eventually
\* answered once, by 400, 200 or 500, and stays so, whichever way its
\* outbound calls end and in whichever order.
C5_ExactlyOneResponse ==
    \A r \in Reqs :
        /\ [](Len(res[r]) <= 1)
        /\ (pc[r] # "idle") ~>
              [](Len(res[r]) = 1 /\ res[r][1].status \in {200, 400, 500})

C5_Witness ==
    \E r \in Reqs :
        /\ web[r].st = "fail" /\ img[r].st = "fail"
        /\ Len(res[r]) = 1 /\ res[r][1].status = 500

RECURSIVE Dedupe(_)
Dedupe(urls) ==
    IF urls = <<>> THEN <<>>
    ELSE LET rest == Dedupe(SubSeq(urls, 1, Len(urls) - 1))
             last == urls[Len(urls)]
         IN IF \E i \in 1..Len(rest) : rest[i] = last THEN rest
            ELSE Append(rest, last)

\* C6: when the completion returned text that is not valid JSON, the
\* extraction record has brand null, model equal to the sanitized query,
\* both prices null, basis null, and as sources the first 4 URLs of the
\* search results without duplicates, in order.
C6_FallbackRecord ==
    \A r \in Reqs :
        (llmCall[r].st = "ok"
           /\ ~JSONparse(CompletionText(llmCall[r].value)).ok) =>
            /\ llm[r].t = "object"
            /\ llm[r].o.brand = JNull
            /\ llm[r].o.model = JStr(query[r])
            /\ llm[r].o.starting_price_inr = JNull
            /\ llm[r].o.top_variant_price_inr = JNull
            /\ llm[r].o.ex_showroom_or_on_road = JNull
            /\ llm[r].o.sources = JArr(Dedupe(FirstUrls(web[r].value)))

\* The first index whose item has an original URL, 0 if there is none.
FirstOriginalIndex(items) ==
    IF \E i \in 1..Len(items) : items[i].original # ""
    THEN CHOOSE i \in 1..Len(items) :
            /\ items[i].original # ""
            /\ \A j \in 1..(i - 1) : items[j].original = ""
    ELSE 0

\* The first index among the items of largest width.
WidestIndex(items) ==
    CHOOSE i \in 1..Len(items) :
        /\ \A j \in 1..Len(items) : items[j].width <= items[i].width
        /\ \A j \in 1..(i - 1) : items[j].width < items[i].width

Hundredths(n) ==
    CHOOSE h \in 0..(n \div 1000 + 1) : 2 * h * 1000 - 1000 < 2 * n
                                        /\ 2 * n < 2 * h * 1000 + 1000

TwoDecimals(n) ==
    Digits(Hundredths(n) \div 100) \o "." \o Digit((Hundredths(n) \div 10) % 10)
        \o Digit(Hundredths(n) % 10)

AbsentOrNonNumeric(v) ==
    \/ v.t \in {"undefined", "null"}
    \/ Number(v).t = "NaN"

\* C8 as stated, for one price field and its formatted companion
AsStated(inr, lakhs) ==
    /\ inr.t = "number" => lakhs = JStr(TwoDecimals(inr.n) \o " lakhs")
    /\ inr = JNum(1500000) => lakhs = JStr("1.50 lakhs")
    /\ (lakhs = JNull) <=> AbsentOrNonNumeric(inr)

\* C8 as stated: "X.XX lakhs" for every numeric amount, null exactly for an
\* absent or non-numeric one, in both price fields of the response.
C8_LakhsAsStated ==
    (fn = "prices" /\ Len(ret) = 1) =>
        /\ AsStated(ret[1].starting_inr, ret[1].starting_lakhs)
        /\ AsStated(ret[1].top_inr, ret[1].top_lakhs)

AsAmended(inr, lakhs) ==
    /\ (inr.t = "number" /\ inr.n > 0) =>
          lakhs = JStr("₹" \o TwoDecimals(inr.n) \o " lakhs")
    /\ inr = JNum(1500000) => lakhs = JStr("₹15.00 lakhs")
    /\ (lakhs = JNull) <=>
          (AbsentOrNonNumeric(inr) \/ Number(inr) = JNum(0))
    /\ lakhs # JNull =>
          lakhs = JStr("₹" \o TwoDecimals(Number(inr).n) \o " lakhs")

\* C8, amended: "₹X.XX lakhs" for every positive amount, null exactly for
\* an amount that is absent, non-numeric or zero, in both price fields.
C8_LakhsAmended ==
    (fn = "prices" /\ Len(ret) = 1) =>
        /\ ret[1].starting_inr = arg.o.starting_price_inr
        /\ ret[1].top_inr = arg.o.top_variant_price_inr
        /\ AsAmended(ret[1].starting_inr, ret[1].starting_lakhs)
        /\ AsAmended(ret[1].top_inr, ret[1].top_lakhs)

C8_Witness ==
    /\ fn = "prices" /\ Len(ret) = 1
    /\ ret[1].starting_inr = JNum(1500000)
    /\ ret[1].starting_lakhs = JStr("₹15.00 lakhs")
    /\ ret[1].top_inr = JNum(0)
    /\ ret[1].top_lakhs = JNull

CleanInput(v) ==
    /\ v.t = "string" /\ Len(v.s) <= MaxQueryLen
    /\ NoLeadingSpace(v.s) /\ NoTrailingSpace(v.s)

\* C9 as stated: at most 80 characters, no leading or trailing whitespace,
\* the identity on clean strings of at most 80 characters, and idempotent.
C9_SanitizeAsStated ==
    fn = "sanitizeQuery" =>
        /\ Len(ret) >= 1 =>
              /\ Len(ret[1]) <= MaxQueryLen
              /\ NoLeadingSpace(ret[1]) /\ NoTrailingSpace(ret[1])
              /\ CleanInput(arg) => ret[1] = arg.s
        /\ Len(ret) = 2 => ret[2] = ret[1]

\* the text of the parameter with its surrounding whitespace removed is
\* longer than 80 characters
LongAfterTrim(v) ==
    /\ v.t = "string"
    /\ \E i, j \in 1..Len(v.s) :
          /\ j - i + 1 > MaxQueryLen
          /\ SubSeq(v.s, i, i) \notin WhiteSpace
          /\ SubSeq(v.s, j, j) \notin WhiteSpace

\* C9, amended: at most 80 characters, no leading whitespace, trailing
\* whitespace only where the cut at 80 characters leaves it, the identity
\* on clean strings of at most 80 characters, and a second application
\* only removes that trailing whitespace.
C9_SanitizeAmended ==
    fn = "sanitizeQuery" =>
        /\ Len(ret) >= 1 =>
              /\ Len(ret[1]) <= MaxQueryLen
              /\ NoLeadingSpace(ret[1])
              /\ ~LongAfterTrim(arg) => NoTrailingSpace(ret[1])
              /\ CleanInput(arg) => ret[1] = arg.s
        /\ Len(ret) = 2 =>
              /\ NoTrailingSpace(ret[1]) => ret[2] = ret[1]
              /\ NoTrailingSpace(ret[2]) /\ NoLeadingSpace(ret[2])
              /\ \E k \in 0..Len(ret[1]) :
                    /\ ret[2] = SubSeq(ret[1], 1, k)
                    /\ IsWhite(SubSeq(ret[1], k + 1, Len(ret[1])))

C9_Witness ==
    /\ fn = "sanitizeQuery" /\ Len(ret) = 2
    /\ LongAfterTrim(arg)
    /\ Len(ret[1]) = MaxQueryLen
    /\ ~NoTrailingSpace(ret[1])
    /\ ret[2] # ret[1]

\* C10: the sources of a 200 response are the extraction record's sources
\* when that is a non-empty array and otherwise the first 4 URLs of the
\* search results, and are at most 4 either way.
C10_AtMostFourSources ==
    \A r \in Reqs :
        (Answered(r) /\ res[r][1].status = 200) =>
            /\ res[r][1].body.sources.t = "array"
            /\ Len(res[r][1].body.sources.a) <= MaxSources
            /\ res[r][1].body.sources =
                  IF Get(llm[r], "sources").t = "array"
                     /\ Get(llm[r], "sources").a # <<>>
                  THEN Get(llm[r], "sources")
                  ELSE JArr(FirstUrls(web[r].value))

====
